---- MODULE Spec2Model ----
(***************************************************************************)
(* wagtail-reusable-blocks: the ReusableBlock table, the save paths        *)
(* (ReusableBlock.save, ReusableBlockSerializer.create / update), the      *)
(* reference-graph validator and the chooser / layout render entry points. *)
(***************************************************************************)
EXTENDS Integers, Sequences, FiniteSets, TLC

\* Bounds of the model: the pks the database hands out, the segments of a
\* content, the largest depth a caller seeds a render context with, and the
\* nesting level at which the interpreter gives up (RecursionError).
MaxBlocks == 2
MaxSegs == 1
MaxDepth == 6
MaxRecursion == 6
MaxElems == 2
MaxFills == 2

\* WAGTAIL_REUSABLE_BLOCKS["MAX_NESTING_DEPTH"], by default.
MAX_NESTING_DEPTH == 5

\* pk of an instance that has no row yet, and the value of a chooser whose
\* target row is missing (Python None).
None == 0

Ids == 1..MaxBlocks

\* The depth of a context that is None or holds no _reusable_block_depth.
NoDepth == -1

\* The depths a caller may seed a render context with.
Depths == {NoDepth} \cup 0..MaxDepth

\* ----------------------------------------------------------------- content
\* A content segment: a type tag and a value (StreamField child).
RichText == [type |-> "rich_text", value |-> 0]

Ref(i) == [type |-> "reusable_block", value |-> i]

\* The segments a stored block's content is made of: text, or a reference
\* to a block.  (The content field of models/reusable_block.py declares
\* rich_text and raw_html; a block's content holding references to other
\* blocks is the reference graph the validator and the renderer work on.
\* raw_html is a leaf like rich_text and is not told apart.)
Segments(ids) == {RichText} \cup {Ref(i) : i \in ids}

\* Every content of at most MaxSegs segments whose references are in ids.
Contents(ids) == UNION {[1..n -> Segments(ids)] : n \in 0..MaxSegs}

VARIABLES
    objects,   \* the ReusableBlock table: pk -> row
    nextId,    \* the next pk the database assigns (pks are never reused)
    last,      \* the last operation on the table and how it ended
    detected,  \* the last call of the reference-graph validator
    template,  \* whether the configured TEMPLATE can be loaded
    rendered,  \* the last call of a render entry point
    settings,  \* the WAGTAIL_REUSABLE_BLOCKS dict of the django settings
    inflight   \* the requests being served at the same time, by position

storeVars == <<objects, nextId, last>>

vars ==
    <<objects, nextId, last, detected, template, rendered, settings, inflight>>

Range(q) == {q[k] : k \in DOMAIN q}

\* ---------------------------------------------------------------- settings
\* A setting value, by what the code asks of it: its python type, the items
\* of a list, the number of an int.
Value(type, items, int) == [type |-> type, items |-> items, int |-> int]

\* The key is not in the dict.
Unset == Value("unset", <<>>, 0)

\* None
NoneValue == Value("None", <<>>, 0)

\* An item of a list: a tuple (its length, the type of its first element,
\* whether its second element has a render method), a string, or a class
\* given by its dotted path.
TupleItem(len, name, block) ==
    [type |-> "tuple", len |-> len, name |-> name, block |-> block]
StrItem == [type |-> "str", len |-> 0, name |-> "", block |-> ""]
ClassItem(path) == [type |-> "class", len |-> 0, name |-> path, block |-> ""]

\* The keys of WAGTAIL_REUSABLE_BLOCKS the package reads.
SettingKeys ==
    {"BLOCK_TYPES", "TEMPLATE", "MAX_NESTING_DEPTH", "API_PERMISSION_CLASSES",
     "API_AUTHENTICATION_CLASSES"}

\* conf.DEFAULTS
DEFAULTS ==
    [BLOCK_TYPES |->
        Value("list", <<TupleItem(2, "str", "Block"),
                        TupleItem(2, "str", "Block")>>, 0),
     TEMPLATE |-> Value("str", <<>>, 0)]

\* getattr(settings, "WAGTAIL_REUSABLE_BLOCKS", {}) without any override.
NoOverride == [k \in SettingKeys |-> Unset]

\* conf.get_setting(key): the value of the django settings, else the one of
\* DEFAULTS, else None.
get_setting(user, key) ==
    IF user[key] # Unset THEN user[key]
    ELSE IF key \in DOMAIN DEFAULTS THEN DEFAULTS[key]
    ELSE NoneValue

\* No request is being served.
NoRequests == <<>>

\* ------------------------------------------------- reference graph validator
IsRef(seg) == seg.type = "reusable_block"

\* The pks a content references, in document order.
ContentRefs(content) ==
    LET refs == SelectSeq(content, IsRef)
    IN [k \in 1..Len(refs) |-> refs[k].value]

\* The referenced blocks that exist; a dangling reference is ignored.
get_referenced_blocks(objs, content) ==
    SelectSeq(ContentRefs(content), LAMBDA r : r \in DOMAIN objs)

\* _detect_circular_references(visited): the depth-first walk over the
\* blocks a block references.  The result tells whether the walk raised
\* ValidationError("Circular reference detected") and lists the calls made,
\* in order, each with the block it was made on and the visited set it got.
RECURSIVE detect_circular_references(_, _, _, _)

RECURSIVE detect_each(_, _, _)

\* The loop over the referenced blocks: each is validated with a copy of
\* the visited set; the first raise ends the walk.
detect_each(objs, refs, visited) ==
    IF refs = <<>> THEN [raised |-> FALSE, calls |-> <<>>]
    ELSE LET r == detect_circular_references(
                      objs, Head(refs), objs[Head(refs)].content, visited)
         IN IF r.raised THEN r
            ELSE LET rest == detect_each(objs, Tail(refs), visited)
                 IN [raised |-> rest.raised, calls |-> r.calls \o rest.calls]

\* The walk with a revisit taken as "already validated": it returns.
detect_ReturnsOnRevisit(objs, pk, content, visited) ==
    LET call == [pk |-> pk, visited |-> visited]
    IN IF pk \in visited
       THEN [raised |-> FALSE, calls |-> <<call>>]
       ELSE LET onPath == IF pk = None THEN visited ELSE visited \cup {pk}
                sub == detect_each(
                           objs, get_referenced_blocks(objs, content), onPath)
            IN [raised |-> sub.raised, calls |-> <<call>> \o sub.calls]

\* The walk that looks at the referenced pks itself and raises before it
\* makes the call on the block that closes the cycle.
detect_RaisesBeforeRecursing(objs, pk, content, visited) ==
    LET call == [pk |-> pk, visited |-> visited]
        onPath == IF pk = None THEN visited ELSE visited \cup {pk}
        refs == get_referenced_blocks(objs, content)
    IN IF pk \in visited \/ \E r \in Range(refs) : r \in onPath
       THEN [raised |-> TRUE, calls |-> <<call>>]
       ELSE LET sub == detect_each(objs, refs, onPath)
            IN [raised |-> sub.raised, calls |-> <<call>> \o sub.calls]

\* The walk that adds the block to the visited set before it tests it.
detect_AddsBeforeCheck(objs, pk, content, visited) ==
    LET call == [pk |-> pk, visited |-> visited]
        onPath == IF pk = None THEN visited ELSE visited \cup {pk}
    IN IF pk \in onPath
       THEN [raised |-> TRUE, calls |-> <<call>>]
       ELSE LET sub == detect_each(
                           objs, get_referenced_blocks(objs, content), onPath)
            IN [raised |-> sub.raised, calls |-> <<call>> \o sub.calls]

RECURSIVE walk_SharedVisited(_, _, _, _)

RECURSIVE each_SharedVisited(_, _, _)

\* The loop over the referenced blocks with one visited set handed from
\* each referenced block to the next.
each_SharedVisited(objs, refs, visited) ==
    IF refs = <<>>
    THEN [raised |-> FALSE, calls |-> <<>>, visited |-> visited]
    ELSE LET r == walk_SharedVisited(
                      objs, Head(refs), objs[Head(refs)].content, visited)
         IN IF r.raised THEN r
            ELSE LET rest == each_SharedVisited(objs, Tail(refs), r.visited)
                 IN [raised |-> rest.raised, calls |-> r.calls \o rest.calls,
                     visited |-> rest.visited]

walk_SharedVisited(objs, pk, content, visited) ==
    LET call == [pk |-> pk, visited |-> visited]
    IN IF pk \in visited
       THEN [raised |-> TRUE, calls |-> <<call>>, visited |-> visited]
       ELSE LET seen == IF pk = None THEN visited ELSE visited \cup {pk}
                sub == each_SharedVisited(
                           objs, get_referenced_blocks(objs, content), seen)
            IN [raised |-> sub.raised, calls |-> <<call>> \o sub.calls,
                visited |-> sub.visited]

\* The walk with a single visited set shared by the whole walk: a block
\* stays in it after the walk has left the block's path.
detect_circular_references_SharedVisited(objs, pk, content, visited) ==
    LET r == walk_SharedVisited(objs, pk, content, visited)
    IN [raised |-> r.raised, calls |-> r.calls]

detect_circular_references(objs, pk, content, visited) ==
    LET call == [pk |-> pk, visited |-> visited]
    IN IF pk \in visited
       THEN [raised |-> TRUE, calls |-> <<call>>]
       ELSE LET onPath == IF pk = None THEN visited ELSE visited \cup {pk}
                sub == detect_each(
                           objs, get_referenced_blocks(objs, content), onPath)
            IN [raised |-> sub.raised, calls |-> <<call>> \o sub.calls]

\* ReusableBlock.clean(): the model-validation hook; TRUE when it raises.
clean(objs, pk, content) ==
    detect_circular_references(objs, pk, content, {}).raised

\* instance.full_clean() as the serializer calls it: Model.full_clean runs
\* the model's clean() hook; TRUE when it raises ValidationError.  The hook
\* is the validator above, which tests/test_circular_reference.py
\* exercises and the class in models/reusable_block.py does not define.
full_clean(objs, pk, content) == clean(objs, pk, content)

\* ------------------------------------------------------------- save paths
Row(content) == [content |-> content]

\* ReusableBlock.save(): fills the slug and writes the row (super().save());
\* it calls no validation.  An instance without pk gets the next pk.
save(objs, nid, pk, content) ==
    IF pk = None
    THEN [objects |-> [k \in DOMAIN objs \cup {nid} |->
                         IF k = nid THEN Row(content) ELSE objs[k]],
          nextId |-> nid + 1, pk |-> nid]
    ELSE [objects |-> [k \in DOMAIN objs \cup {pk} |->
                         IF k = pk THEN Row(content) ELSE objs[k]],
          nextId |-> nid, pk |-> pk]

\* The operations that run inside a request to ReusableBlockModelViewSet.
ApiOps ==
    {"create", "update", "list", "post", "put", "patch", "destroy", "publish",
     "unpublish", "render"}

\* The status of the response the view sends.  A rest_framework
\* ValidationError (raised while the serializer validates) is answered
\* with 400.  Any other exception that leaves serializer.save() is not
\* handled by the view: django's ValidationError from full_clean() and
\* IntegrityError end the request as a server error.  A request a
\* permission class refuses is answered with 403.  Operations made outside
\* a request have no status.
HttpStatus(op, result) ==
    IF op \notin ApiOps THEN None
    ELSE IF result = "ok"
         THEN IF op \in {"create", "post"} THEN 201
              ELSE IF op = "destroy" THEN 204
              ELSE 200
    ELSE IF result = "serializers.ValidationError" THEN 400
    ELSE IF result = "PermissionDenied" THEN 403
    ELSE 500

\* The serializer and the views call save_revision(), publish() and
\* unpublish() on the block and read its live column.  These come from the
\* revision and draft-state bases of the block class, which the class
\* declaration in models/reusable_block.py does not list; they are taken
\* as wagtail provides them: save_revision(clean=True) runs
\* self.full_clean() on the instance against the rows stored at that
\* moment and then records a revision, leaving the block's columns alone;
\* publishing and unpublishing set live.
\* instance.save_revision() of an instance holding `content`; TRUE when
\* its full_clean() raises ValidationError (no revision is recorded).
save_revision(objs, pk, content) == full_clean(objs, pk, content)

publish(row) == [row EXCEPT !.live = TRUE]

unpublish(row) == [row EXCEPT !.live = FALSE]

\* What a handler leaves behind: the table, the pk counter and the outcome.
Outcome(op, objs, nid, pk, result, calls) ==
    [objects |-> objs, nextId |-> nid,
     last |-> [op |-> op, pk |-> pk, result |-> result,
               status |-> HttpStatus(op, result), calls |-> calls]]

\* ReusableBlockSerializer.create(validated_data)
SerializerCreate(objs, nid, content) ==
    IF full_clean(objs, None, content)
    THEN Outcome("create", objs, nid, None, "ValidationError",
                 <<"full_clean">>)
    ELSE LET w == save(objs, nid, None, content)
         IN Outcome("create", w.objects, w.nextId, w.pk,
                    IF save_revision(w.objects, w.pk, content)
                    THEN "ValidationError" ELSE "ok",
                    <<"full_clean", "save", "save_revision">>)

\* update() with the instance.full_clean() call left out.
SerializerUpdate_NoFullClean(objs, nid, pk, content) ==
    LET w == save(objs, nid, pk, content)
    IN Outcome("update", w.objects, w.nextId, w.pk, "ok",
               <<"save", "save_revision">>)

\* update() that writes the row first and validates afterwards.
SerializerUpdate_SaveBeforeClean(objs, nid, pk, content) ==
    LET w == save(objs, nid, pk, content)
    IN IF full_clean(w.objects, pk, content)
       THEN Outcome("update", w.objects, w.nextId, w.pk, "ValidationError",
                    <<"save", "full_clean">>)
       ELSE Outcome("update", w.objects, w.nextId, w.pk, "ok",
                    <<"save", "full_clean", "save_revision">>)

\* ReusableBlockSerializer.update(instance, validated_data)
SerializerUpdate(objs, nid, pk, content) ==
    IF full_clean(objs, pk, content)
    THEN Outcome("update", objs, nid, pk, "ValidationError",
                 <<"full_clean">>)
    ELSE LET w == save(objs, nid, pk, content)
         IN Outcome("update", w.objects, w.nextId, w.pk,
                    IF save_revision(w.objects, w.pk, content)
                    THEN "ValidationError" ELSE "ok",
                    <<"full_clean", "save", "save_revision">>)

\* block.save() called directly on an instance (new, or loaded and edited).
ModelSave(objs, nid, pk, content) ==
    LET w == save(objs, nid, pk, content)
    IN Outcome("save", w.objects, w.nextId, w.pk, "ok", <<"save">>)

\* instance.delete(): the row goes; rows that reference it keep the pk.
ModelDelete(objs, nid, pk) ==
    Outcome("delete", [k \in DOMAIN objs \ {pk} |-> objs[k]], nid, pk, "ok",
            <<"delete">>)

\* ---------------------------------------------------------------- rendering
\* Rendered HTML: a sequence of elements, each with the data-slot id it
\* carries ("" for none) and its inner content.
Elem(slot, inner) == [slot |-> slot, inner |-> inner]

\* The data-slot ids a layout's markup may carry.
SlotIds == {"header", "main", "footer"}

\* A whitespace text node.
Whitespace == Elem("", <<" ">>)

\* An element carrying data-slot="<slot>" around its default content.
SlotElem(slot) == Elem(slot, <<"default">>)

\* What a rich_text segment renders to.
ContentHtml == Elem("", <<"<p>Content</p>">>)

\* The markup a raw_html segment may hold: up to MaxElems nodes, each
\* a whitespace text node, a plain element or a slot element.
Htmls ==
    UNION {[1..n -> {Whitespace, ContentHtml} \cup {SlotElem(s) : s \in SlotIds}]
              : n \in 0..MaxElems}

\* A raw_html segment: its value is rendered as it is.
RawHtml(html) == [type |-> "raw_html", value |-> html]

\* The placeholder of a branch cut at the nesting limit.
PlaceholderHtml == Elem("", <<"Maximum nesting depth exceeded">>)

\* The result of a render call: whether it raised, its output, the largest
\* number of nested block expansions on a call chain below it, and the
\* largest depth value a context of the chain carried.
Rendered(raised, out, expansions, carried) ==
    [raised |-> raised, out |-> out, expansions |-> expansions,
     carried |-> carried]

Max(a, b) == IF a >= b THEN a ELSE b

\* The chooser's value for a stored pk: the instance, or None when the row
\* is gone.
Lookup(objs, ref) == IF ref \in DOMAIN objs THEN ref ELSE None

RECURSIVE render_as_block(_, _, _, _, _)

RECURSIVE ReusableBlock_render(_, _, _, _, _)

\* render_basic without the try / except: a failure of the block's render
\* reaches the caller.
render_basic_NoExcept(objs, tpl, value, depth, level) ==
    IF value = None
    THEN Rendered(FALSE, <<>>, 0, depth)
    ELSE ReusableBlock_render(objs, tpl, value, depth, level)

\* ReusableBlockChooserBlock.render_basic(value, context), called at
\* nesting level `level` with a context carrying `depth`.
render_basic(objs, tpl, value, depth, level) ==
    IF value = None
    THEN Rendered(FALSE, <<>>, 0, depth)
    ELSE LET r == ReusableBlock_render(objs, tpl, value, depth, level)
         IN IF r.raised
            THEN Rendered(FALSE, <<>>, r.expansions, r.carried)
            ELSE r

\* StreamValue.render_as_block(context): every segment rendered in order
\* with the same context; a reference segment goes through render_basic
\* one nesting level down.
render_as_block(objs, tpl, content, depth, level) ==
    IF content = <<>>
    THEN Rendered(FALSE, <<>>, 0, depth)
    ELSE LET seg == Head(content)
             h == IF IsRef(seg)
                  THEN render_basic(objs, tpl, Lookup(objs, seg.value),
                                    depth, level + 1)
                  ELSE IF seg.type = "raw_html"
                  THEN Rendered(FALSE, seg.value, 0, depth)
                  ELSE Rendered(FALSE, <<ContentHtml>>, 0, depth)
             t == render_as_block(objs, tpl, Tail(content), depth, level)
         IN Rendered(FALSE, h.out \o t.out,
                     Max(h.expansions, t.expansions),
                     Max(h.carried, t.carried))

\* ReusableBlock.render(context): the context is copied, "block" is added
\* and the template renders the block's content.  A template that cannot
\* be loaded raises TemplateDoesNotExist; at the interpreter's nesting
\* limit the call raises RecursionError.
ReusableBlock_render(objs, tpl, pk, depth, level) ==
    IF ~tpl \/ level >= MaxRecursion
    THEN Rendered(TRUE, <<>>, 0, depth)
    ELSE LET r == render_as_block(objs, tpl, objs[pk].content, depth, level)
         IN Rendered(FALSE, r.out, r.expansions + 1, r.carried)

\* A slot fill: the slot it targets and the content to put there.
SlotFill(slot_id, content) == [slot_id |-> slot_id, content |-> content]

\* The slot_content values a layout is rendered with.
SlotContents == {<<>>, <<SlotFill("main", <<RichText>>)>>}

\* The inner content of a rendered fill.
RECURSIVE Inner(_)

Inner(html) == IF html = <<>> THEN <<>> ELSE Head(html).inner \o Inner(Tail(html))

\* An image segment of a fill (SlotContentStreamBlock's "image"); its
\* value tells whether the source file of the chosen image is still in
\* storage.  (The block types of a fill's content are rich_text, raw_html,
\* image and reusable_block: the import that would add reusable_layout
\* runs while blocks/layout.py is itself being imported and fails.)
ImageSeg(stored) == [type |-> "image", value |-> stored]

\* What an image segment renders to.
ImageHtml == Elem("", <<"<img>">>)

\* One segment of a fill rendered: an image is rendered through a
\* rendition of its source file, which raises when the file is gone;
\* every other segment renders as in a StreamValue.
render_fill_segment(objs, tpl, seg, depth, level) ==
    IF seg.type = "image"
    THEN IF seg.value
         THEN Rendered(FALSE, <<ImageHtml>>, 0, depth)
         ELSE Rendered(TRUE, <<>>, 0, depth)
    ELSE render_as_block(objs, tpl, <<seg>>, depth, level)

RECURSIVE render_fill(_, _, _, _, _)

\* The content of one fill rendered segment by segment, the exception of
\* a segment being caught at that segment: failed tells whether one was
\* caught, out is what the other segments gave.
render_fill(objs, tpl, content, depth, level) ==
    IF content = <<>>
    THEN [failed |-> FALSE, out |-> <<>>]
    ELSE LET h == render_fill_segment(objs, tpl, Head(content), depth, level)
             t == render_fill(objs, tpl, Tail(content), depth, level)
         IN [failed |-> h.raised \/ t.failed,
             out |-> (IF h.raised THEN <<>> ELSE h.out) \o t.out]

\* An injector that puts what the other segments gave into the slot of a
\* fill with a failed segment, instead of leaving the default content.
render_layout_with_slots_KeepsPartialFill(objs, tpl, html, fills, depth, level) ==
    LET Filled(k) ==
            /\ html[k].slot # ""
            /\ \E f \in 1..Len(fills) : fills[f].slot_id = html[k].slot
            /\ \A j \in 1..(k - 1) : html[j].slot # html[k].slot
        FillFor(k) ==
            fills[CHOOSE f \in 1..Len(fills) :
                    /\ fills[f].slot_id = html[k].slot
                    /\ \A g \in 1..(f - 1) : fills[g].slot_id # html[k].slot]
        Fill(k) == render_fill(objs, tpl, FillFor(k).content, depth, level)
    IN IF fills = <<>>
       THEN html
       ELSE [k \in 1..Len(html) |->
               IF Filled(k)
               THEN Elem(html[k].slot, Inner(Fill(k).out))
               ELSE html[k]]

\* An injector that fills every element carrying a filled slot id, not
\* only the first one.
render_layout_with_slots_FillsEveryMatch(objs, tpl, html, fills, depth, level) ==
    LET Filled(k) ==
            /\ html[k].slot # ""
            /\ \E f \in 1..Len(fills) : fills[f].slot_id = html[k].slot
        FillFor(k) ==
            fills[CHOOSE f \in 1..Len(fills) :
                    /\ fills[f].slot_id = html[k].slot
                    /\ \A g \in 1..(f - 1) : fills[g].slot_id # html[k].slot]
        Fill(k) == render_fill(objs, tpl, FillFor(k).content, depth, level)
    IN [k \in 1..Len(html) |->
          IF Filled(k) /\ ~Fill(k).failed
          THEN Elem(html[k].slot, Inner(Fill(k).out))
          ELSE html[k]]

\* render_layout_with_slots(layout_html, slot_fills, context): the first
\* element carrying a slot id that has a fill gets the fill's rendered
\* content as its inner content; everything else is left as it is, and
\* so is the slot of a fill one of whose segments failed to render.
render_layout_with_slots(objs, tpl, html, fills, depth, level) ==
    LET Filled(k) ==
            /\ html[k].slot # ""
            /\ \E f \in 1..Len(fills) : fills[f].slot_id = html[k].slot
            /\ \A j \in 1..(k - 1) : html[j].slot # html[k].slot
        FillFor(k) ==
            fills[CHOOSE f \in 1..Len(fills) :
                    /\ fills[f].slot_id = html[k].slot
                    /\ \A g \in 1..(f - 1) : fills[g].slot_id # html[k].slot]
        Fill(k) == render_fill(objs, tpl, FillFor(k).content, depth, level)
    IN IF fills = <<>>
       THEN html
       ELSE [k \in 1..Len(html) |->
               IF Filled(k) /\ ~Fill(k).failed
               THEN Elem(html[k].slot, Inner(Fill(k).out))
               ELSE html[k]]

\* A top-level call of render_layout_with_slots(layout_html, slot_fills,
\* context): its output.
RenderLayoutCall(objs, tpl, html, fills, depth) ==
    [out |-> render_layout_with_slots(objs, tpl, html, fills, depth, 0)]

\* What slot detection reports for one slot: its id and default content.
SlotInfo(slot_id, default) == [slot_id |-> slot_id, default |-> default]

RECURSIVE detect_slots(_, _)

\* The scan behind detect_slots_from_html: the slot elements in document
\* order, an id already seen being skipped.
detect_slots(html, seen) ==
    IF html = <<>>
    THEN <<>>
    ELSE LET e == Head(html)
         IN IF e.slot = "" \/ e.slot \in seen
            THEN detect_slots(Tail(html), seen)
            ELSE <<SlotInfo(e.slot, e.inner)>>
                     \o detect_slots(Tail(html), seen \cup {e.slot})

\* detect_slots_from_html that reports every slot element it meets.
detect_slots_ReportsEveryElement(html) ==
    LET slotted == SelectSeq(html, LAMBDA e : e.slot # "")
    IN [k \in 1..Len(slotted) |-> SlotInfo(slotted[k].slot, slotted[k].inner)]

\* detect_slots_from_html(html)
detect_slots_from_html(html) ==
    IF \A k \in 1..Len(html) : html[k] = Whitespace
    THEN <<>>
    ELSE detect_slots(html, {})

\* ReusableLayoutBlock.render that runs the injection even without fills
\* and leaves every unfilled slot empty.
ReusableLayoutBlock_render_EmptiesUnfilled(objs, tpl, layout, slot_content, depth) ==
    IF layout = None
    THEN Rendered(TRUE, <<>>, 0, depth)
    ELSE LET h == render_as_block(objs, tpl, objs[layout].content, depth, 0)
             filled == render_layout_with_slots(
                           objs, tpl, h.out, slot_content, depth, 0)
         IN Rendered(FALSE,
                     [k \in 1..Len(filled) |->
                         IF filled[k].slot # "" /\ filled[k] = h.out[k]
                         THEN Elem(filled[k].slot, <<>>)
                         ELSE filled[k]],
                     h.expansions + 1, h.carried)

\* ReusableLayoutBlock.render that never passes the fills on.
ReusableLayoutBlock_render_IgnoresFills(objs, tpl, layout, slot_content, depth) ==
    IF layout = None
    THEN Rendered(TRUE, <<>>, 0, depth)
    ELSE LET h == render_as_block(objs, tpl, objs[layout].content, depth, 0)
         IN Rendered(FALSE, h.out, h.expansions + 1, h.carried)

\* ReusableLayoutBlock.render(value, context)
ReusableLayoutBlock_render(objs, tpl, layout, slot_content, depth) ==
    IF layout = None
    THEN Rendered(TRUE, <<>>, 0, depth)
    ELSE LET h == render_as_block(objs, tpl, objs[layout].content, depth, 0)
         IN IF slot_content = <<>>
            THEN Rendered(FALSE, h.out, h.expansions + 1, h.carried)
            ELSE Rendered(FALSE,
                          render_layout_with_slots(
                              objs, tpl, h.out, slot_content, depth, 0),
                          h.expansions + 1, h.carried)

\* ---------------------------------------------------------------- actions
Apply(o) ==
    /\ objects' = o.objects
    /\ nextId' = o.nextId
    /\ last' = o.last
    /\ UNCHANGED <<detected, template, rendered, settings, inflight>>

Create(content) ==
    /\ nextId <= MaxBlocks
    /\ Apply(SerializerCreate(objects, nextId, content))

Update(pk, content) ==
    /\ pk \in DOMAIN objects
    /\ Apply(SerializerUpdate(objects, nextId, pk, content))

Save(pk, content) ==
    /\ pk = None => nextId <= MaxBlocks
    /\ Apply(ModelSave(objects, nextId, pk, content))

Delete(pk) ==
    /\ pk \in DOMAIN objects
    /\ Apply(ModelDelete(objects, nextId, pk))

NoOp ==
    [op |-> "none", pk |-> None, result |-> "ok", status |-> None,
     calls |-> <<>>]

EmptyTable == [k \in {} |-> Row(<<>>)]

NoDetect ==
    [op |-> "none", pk |-> None, visited |-> {}, raised |-> FALSE,
     calls |-> <<>>, refs |-> <<>>]

NoRender ==
    [op |-> "none", ref |-> None, value |-> None, slot_content |-> <<>>,
     depth |-> NoDepth,
     raised |-> FALSE, out |-> <<>>, expansions |-> 0, carried |-> NoDepth]

Init ==
    /\ objects = EmptyTable
    /\ nextId = 1
    /\ last = NoOp
    /\ detected = NoDetect
    /\ template = TRUE
    /\ rendered = NoRender
    /\ settings = NoOverride
    /\ inflight = NoRequests

Next ==
    \/ \E c \in Contents(DOMAIN objects) : Create(c)
    \/ \E pk \in DOMAIN objects, c \in Contents(DOMAIN objects) : Update(pk, c)
    \/ \E pk \in DOMAIN objects \cup {None}, c \in Contents(DOMAIN objects) :
           Save(pk, c)
    \/ \E pk \in DOMAIN objects : Delete(pk)

Spec == Init /\ [][Next]_vars

\* ------------------------------------------- the validator called directly
\* Every table the save paths can leave behind: any set of rows, each with
\* any content (block.save() writes what it is given; delete() leaves
\* references to the deleted pk in place).
Tables ==
    UNION {[D -> {Row(c) : c \in Contents(Ids)}] : D \in SUBSET Ids}

\* block._detect_circular_references(visited=visited) on a stored block
DetectCall(pk, visited) ==
    /\ pk \in DOMAIN objects
    /\ LET r == detect_circular_references(
                    objects, pk, objects[pk].content, visited)
       IN detected' = [op |-> "detect", pk |-> pk, visited |-> visited,
                       raised |-> r.raised, calls |-> r.calls, refs |-> <<>>]
    /\ UNCHANGED <<objects, nextId, last, template, rendered, settings, inflight>>

\* block._get_referenced_blocks() on a stored block
ReferencedCall(pk) ==
    /\ pk \in DOMAIN objects
    /\ detected' = [op |-> "get_referenced_blocks", pk |-> pk,
                    visited |-> {}, raised |-> FALSE, calls |-> <<>>,
                    refs |-> get_referenced_blocks(
                                 objects, objects[pk].content)]
    /\ UNCHANGED <<objects, nextId, last, template, rendered, settings, inflight>>

InitDetect ==
    /\ objects \in Tables
    /\ nextId = MaxBlocks + 1
    /\ last = NoOp
    /\ detected = NoDetect
    /\ template = TRUE
    /\ rendered = NoRender
    /\ settings = NoOverride
    /\ inflight = NoRequests

NextDetect ==
    \/ \E pk \in DOMAIN objects, visited \in SUBSET Ids :
           DetectCall(pk, visited)
    \/ \E pk \in DOMAIN objects : ReferencedCall(pk)

SpecDetect == InitDetect /\ [][NextDetect]_vars

\* --------------------------------------------- the render entry points
RenderResult(op, ref, value, slot_content, depth, r) ==
    [op |-> op, ref |-> ref, value |-> value,
     slot_content |-> slot_content, depth |-> depth,
     raised |-> r.raised, out |-> r.out, expansions |-> r.expansions,
     carried |-> r.carried]

\* A render reads the store and leaves it as it is, so a second render
\* from the same store reaches nothing the first does not: each behaviour
\* follows one top-level render.
\*
\* A top-level ReusableBlockChooserBlock.render_basic(value, context), the
\* value being what the chooser holds for pk ref.
RenderBasic(ref, depth) ==
    /\ rendered.op = "none"
    /\ rendered' = RenderResult(
                       "render_basic", ref, Lookup(objects, ref), <<>>, depth,
                       render_basic(objects, template, Lookup(objects, ref),
                                    depth, 0))
    /\ UNCHANGED <<objects, nextId, last, detected, template, settings, inflight>>

\* A top-level ReusableLayoutBlock.render(value, context)
LayoutRender(ref, slot_content, depth) ==
    /\ rendered.op = "none"
    /\ rendered' = RenderResult(
                       "layout_render", ref, Lookup(objects, ref),
                       slot_content, depth,
                       ReusableLayoutBlock_render(
                           objects, template, Lookup(objects, ref),
                           slot_content, depth))
    /\ UNCHANGED <<objects, nextId, last, detected, template, settings, inflight>>

\* The stores a render starts from: every table whose blocks hold at most
\* one reference each, so that blocks nest in chains and cycles without
\* sibling fan-out.
RenderTables ==
    {t \in Tables :
        \A pk \in DOMAIN t : Len(ContentRefs(t[pk].content)) <= 1}

InitRender ==
    /\ objects \in RenderTables
    /\ nextId = MaxBlocks + 1
    /\ last = NoOp
    /\ detected = NoDetect
    /\ template \in BOOLEAN
    /\ rendered = NoRender
    /\ settings = NoOverride
    /\ inflight = NoRequests

NextRender ==
    \/ \E ref \in Ids \cup {None}, depth \in Depths : RenderBasic(ref, depth)
    \/ \E ref \in Ids \cup {None}, sc \in SlotContents, depth \in Depths :
           LayoutRender(ref, sc, depth)

SpecRender == InitRender /\ [][NextRender]_vars

\* ------------------------------------------------------- layouts and slots
\* The content of a layout block: one raw_html segment holding the markup,
\* or plain rich text.
LayoutContents == {<<RawHtml(h)>> : h \in Htmls} \cup {<<RichText>>}

\* What a fill holds: nothing, or a rich-text segment.
FillContents == {<<>>, <<RichText>>}

\* The slot_content a layout is rendered with: up to MaxFills fills, each
\* naming a slot id.
SlotFillSeqs ==
    UNION {[1..n -> {SlotFill(s, c) : s \in SlotIds, c \in FillContents}]
              : n \in 0..MaxFills}

\* Fills with a segment that fails to render: an image whose source
\* file is gone, alone or after a rich-text segment.
BrokenFills ==
    {SlotFill(s, c) : s \in SlotIds,
                      c \in {<<ImageSeg(FALSE)>>,
                              <<RichText, ImageSeg(FALSE)>>}}

\* The sequence seq with the fill b put in at position i.
InsertFill(seq, i, b) ==
    [k \in 1..(Len(seq) + 1) |->
        IF k < i THEN seq[k] ELSE IF k = i THEN b ELSE seq[k - 1]]

\* The slot_content with exactly one broken fill among up to MaxFills
\* fills.
BrokenFillSeqs ==
    UNION {{InsertFill(seq, i, b) : i \in 1..(Len(seq) + 1), b \in BrokenFills}
              : seq \in {q \in SlotFillSeqs : Len(q) < MaxFills}}

\* The rendered markup of the stored block pk, as
\* layout.content.render_as_block(context) gives it.
LayoutHtml(objs, tpl, pk, depth) ==
    render_as_block(objs, tpl, objs[pk].content, depth, 0).out

\* render_layout_with_slots called on the rendered markup of the stored
\* layout pk: the call ReusableLayoutBlock.render makes once it has found
\* slot_content not empty.
RenderLayoutWithSlots(pk, fills, depth) ==
    /\ rendered.op = "none"
    /\ pk \in DOMAIN objects
    /\ fills # <<>>
    /\ LET html == LayoutHtml(objects, template, pk, depth)
           r == RenderLayoutCall(objects, template, html, fills, depth)
       IN rendered' =
              [op |-> "render_layout_with_slots", html |-> html,
               slot_fills |-> fills, depth |-> depth, out |-> r.out]
    /\ UNCHANGED <<objects, nextId, last, detected, template, settings, inflight>>

\* ReusableLayoutBlock.get_form_context: the slots of the selected layout.
DetectSlots(pk) ==
    /\ rendered.op = "none"
    /\ pk \in DOMAIN objects
    /\ LET html == LayoutHtml(objects, template, pk, NoDepth)
       IN rendered' = [op |-> "detect_slots", html |-> html,
                       slots |-> detect_slots_from_html(html)]
    /\ UNCHANGED <<objects, nextId, last, detected, template, settings, inflight>>

InitSlots ==
    /\ objects \in {[pk \in {1} |-> Row(c)] : c \in LayoutContents}
    /\ nextId = 2
    /\ last = NoOp
    /\ detected = NoDetect
    /\ template = TRUE
    /\ rendered = NoRender
    /\ settings = NoOverride
    /\ inflight = NoRequests

NextSlots ==
    \/ \E sc \in SlotFillSeqs, depth \in {NoDepth, 0} :
           LayoutRender(1, sc, depth)
    \/ \E fills \in SlotFillSeqs, depth \in {NoDepth, 0} :
           RenderLayoutWithSlots(1, fills, depth)
    \/ \E fills \in BrokenFillSeqs :
           RenderLayoutWithSlots(1, fills, NoDepth)
    \/ DetectSlots(1)

SpecSlots == InitSlots /\ [][NextSlots]_vars

\* ------------------------------------------------------ the reference graph
\* Edge a -> b: block a's stored content references the stored block b.
Edge(objs, a, b) ==
    /\ a \in DOMAIN objs
    /\ b \in DOMAIN objs
    /\ \E k \in 1..Len(objs[a].content) : objs[a].content[k] = Ref(b)

RECURSIVE Closure(_, _, _)

\* The blocks reached from the set S in at most n further steps.
Closure(objs, S, n) ==
    IF n = 0 THEN S
    ELSE Closure(objs,
                 S \cup {b \in DOMAIN objs : \E a \in S : Edge(objs, a, b)},
                 n - 1)

\* The blocks reached from a by one or more edges.
ReachedFrom(objs, a) ==
    Closure(objs, {b \in DOMAIN objs : Edge(objs, a, b)},
            Cardinality(DOMAIN objs))

RECURSIVE OnCycles(_, _)

\* What is left of the blocks S after taking away, again and again, the
\* blocks that reference nothing that is left: the blocks on a cycle or
\* leading to one.
OnCycles(objs, S) ==
    LET ends == {a \in S : \A b \in S : ~Edge(objs, a, b)}
    IN IF ends = {} THEN S ELSE OnCycles(objs, S \ ends)

\* No cycle and no self-loop among the stored blocks.
Acyclic(objs) == OnCycles(objs, DOMAIN objs) = {}

\* C1: a serializer create or update (validation, then save) that starts
\* from an acyclic stored reference graph leaves it acyclic: no cycle and
\* no self-loop is ever stored through these operations, and the table
\* starts empty.
C1_ValidatedSavesKeepGraphAcyclic ==
    /\ Acyclic(objects)
    /\ [][(last'.op \in {"create", "update"} /\ Acyclic(objects))
            => (objects' = objects \/ Acyclic(objects'))]_storeVars

\* A successful update has stored a reference between two stored blocks.
C1_SerializerUpdateStoredReference ==
    /\ last.op = "update"
    /\ last.result = "ok"
    /\ \E a \in DOMAIN objects \ {last.pk} : Edge(objects, last.pk, a)
    /\ Acyclic(objects)

\* C2: when block A references block B, an update of B whose content
\* references A ends in the circular-reference ValidationError, leaves the
\* table as it was (B keeps its stored content) and saves no revision:
\* in every reachable table that is what the update handler does with
\* every such B and content.
C2_CircularUpdateRejectedUnwritten ==
    \A b \in DOMAIN objects : \A c \in Contents(DOMAIN objects) :
        (\E a \in DOMAIN objects :
            Ref(a) \in Range(c) /\ Edge(objects, a, b))
        => LET o == SerializerUpdate(objects, nextId, b, c)
           IN /\ o.last.result = "ValidationError"
              /\ o.objects = objects
              /\ "save" \notin Range(o.last.calls)
              /\ "save_revision" \notin Range(o.last.calls)

\* An update of B was rejected while another block A references B and the
\* stored graph has no cycle: the update's content closed a cycle through B.
C2_UpdateClosingCycleRejected ==
    /\ last.op = "update"
    /\ last.result = "ValidationError"
    /\ \E a \in DOMAIN objects \ {last.pk} : Edge(objects, a, last.pk)
    /\ Acyclic(objects)

\* The instance a save path worked on had this pk before the operation.
PkBefore(objs, pk) == IF pk \in DOMAIN objs THEN pk ELSE None

\* C3: on every save path (block.save(), serializer create, serializer
\* update) the row is written only after validation has passed: a step
\* that writes a row writes one whose circular-reference check does not
\* raise.
C3_EverySavePathValidatesFirst ==
    [][(last'.op \in {"create", "update", "save"} /\ objects' # objects)
        => ~clean(objects, PkBefore(objects, last'.pk),
                  objects'[last'.pk].content)]_vars

\* The stored content of block pk holds a reference segment to pk itself.
SelfReferencing(objs, pk) == Ref(pk) \in Range(objs[pk].content)

\* C4: a call of detect_circular_references on a block whose pk is already
\* in the visited set it is given, or on a block whose content references
\* the block itself, raises "Circular reference detected".
C4_RaisesOnVisitedOrSelfReference ==
    (/\ detected.op = "detect"
     /\ \/ detected.pk \in detected.visited
        \/ SelfReferencing(objects, detected.pk))
    => detected.raised

\* A self-referencing block, validated with an empty visited set, raised.
C4_SelfReferenceRaised ==
    /\ detected.op = "detect"
    /\ detected.visited = {}
    /\ SelfReferencing(objects, detected.pk)
    /\ detected.raised

\* Block pk lies on a reference cycle through at least one other block.
OnChainCycle(objs, pk) ==
    \E b \in DOMAIN objs \ {pk} :
        Edge(objs, pk, b) /\ pk \in ReachedFrom(objs, b) \cup {b}

\* Every block reached from pk (and pk) holds exactly one reference and
\* nothing else refers outside the stored blocks: a plain chain.
PlainChain(objs, pk) ==
    \A b \in ReachedFrom(objs, pk) \cup {pk} :
        Len(get_referenced_blocks(objs, objs[b].content)) = 1

\* C5: on a chain B1 -> B2 -> ... -> Bn -> B1 (n >= 2) the validation of
\* B1 raises, and it raises in the call that revisits a block of the
\* current path: that call is the last one made, no earlier call was made
\* on a block in its visited set, and on a plain chain the calls are
\* exactly B1, B2, ..., Bn, B1.
C5_RaisesOnTheCallClosingTheCycle ==
    (/\ detected.op = "detect"
     /\ detected.visited = {}
     /\ OnChainCycle(objects, detected.pk))
    => LET c == detected.calls
           n == Len(c)
       IN /\ detected.raised
          /\ n >= 2
          /\ c[n].pk \in c[n].visited
          /\ c[n].visited \subseteq {c[k].pk : k \in 1..(n - 1)}
          /\ \A k \in 1..(n - 1) : c[k].pk \notin c[k].visited
          /\ PlainChain(objects, detected.pk)
                => /\ n = Cardinality(ReachedFrom(objects, detected.pk)) + 1
                   /\ c[n].pk = detected.pk
                   /\ \A j, k \in 1..(n - 1) : j # k => c[j].pk # c[k].pk

\* The validation of B1 on a plain chain B1 -> B2 -> B1 raised in its
\* third call.
C5_TwoBlockChainRaisedOnThirdCall ==
    /\ detected.op = "detect"
    /\ detected.visited = {}
    /\ OnChainCycle(objects, detected.pk)
    /\ PlainChain(objects, detected.pk)
    /\ detected.raised
    /\ Len(detected.calls) = 3

\* No segment of the stored content of block pk is a reference.
NoReferences(objs, pk) ==
    \A k \in 1..Len(objs[pk].content) :
        objs[pk].content[k].type # "reusable_block"

\* C6: for a block whose content holds no reference, get_referenced_blocks
\* is empty and detect_circular_references without a visited set returns
\* without raising.
C6_NoReferencesNoRaise ==
    /\ (/\ detected.op = "detect"
        /\ detected.visited = {}
        /\ NoReferences(objects, detected.pk))
       => (~detected.raised /\ Len(detected.calls) = 1)
    /\ (/\ detected.op = "get_referenced_blocks"
        /\ NoReferences(objects, detected.pk))
       => detected.refs = <<>>

\* A block holding only rich text was validated and did not raise.
C6_RichTextBlockValidated ==
    /\ detected.op = "detect"
    /\ detected.visited = {}
    /\ objects[detected.pk].content = <<RichText>>
    /\ ~detected.raised

\* --------------------------------------------------------- nesting depth
\* The chooser holds a stored block and the configured template loads.
RendersStoredBlock ==
    /\ rendered.op = "render_basic"
    /\ rendered.value # None
    /\ template

\* C7: render_basic on a stored block whose context carries a depth of
\* MAX_NESTING_DEPTH or more yields the "Maximum nesting depth exceeded"
\* placeholder and not the block's content; at the depths 0 ..
\* MAX_NESTING_DEPTH - 1 a block without references yields its content.
C7_PlaceholderAtNestingLimit ==
    RendersStoredBlock =>
        /\ rendered.depth >= MAX_NESTING_DEPTH =>
               rendered.out = <<PlaceholderHtml>>
        /\ ( /\ rendered.depth \in 0..(MAX_NESTING_DEPTH - 1)
             /\ NoReferences(objects, rendered.value) ) =>
               rendered.out =
                   [k \in 1..Len(objects[rendered.value].content) |->
                       ContentHtml]

\* C8: a render that starts at the top level (no depth in the context, or
\* depth 0) never carries a depth above MAX_NESTING_DEPTH, never nests more
\* than MAX_NESTING_DEPTH block expansions on one chain, and raises nothing.
C8_NestingBoundedFromTopLevel ==
    (rendered.op = "render_basic" /\ rendered.depth \in {NoDepth, 0}) =>
        /\ rendered.carried <= MAX_NESTING_DEPTH
        /\ rendered.expansions <= MAX_NESTING_DEPTH
        /\ ~rendered.raised

\* The chooser holds nothing (no selection, or the row is gone), or the
\* block's own render raises.
NothingToRender ==
    \/ rendered.value = None
    \/ ReusableBlock_render(objects, template, rendered.value,
                            rendered.depth, 0).raised

\* C9: render_basic returns the empty string and raises nothing whenever
\* the referenced block is None, has been deleted, or its render raises;
\* no placeholder is shown.
C9_MissingOrFailingBlockRendersEmpty ==
    (rendered.op = "render_basic" /\ NothingToRender) =>
        /\ rendered.out = <<>>
        /\ ~rendered.raised

\* A stored block whose template cannot be loaded was rendered to nothing.
C9_FailedRenderGaveEmptyString ==
    /\ rendered.op = "render_basic"
    /\ rendered.value # None
    /\ ~template
    /\ rendered.out = <<>>
    /\ ~rendered.raised

\* C10: neither ReusableLayoutBlock.render nor render_basic ever raises,
\* a missing or deleted layout and a None context included.
C10_RenderEntryPointsNeverRaise ==
    rendered.op \in {"render_basic", "layout_render"} => ~rendered.raised

\* ------------------------------------------------------- slot injection
\* A layout render of a stored block returned.
LayoutRendered ==
    /\ rendered.op = "layout_render"
    /\ rendered.value # None

\* C11: with no slot fills the layout's rendered markup comes back
\* unchanged: render_layout_with_slots(html, [], ctx) = html for the markup
\* of every stored layout and every context depth, and
\* ReusableLayoutBlock.render with an empty slot_content returns exactly
\* the rendered content of the selected block.
C11_EmptyFillsReturnLayoutUnchanged ==
    /\ \A pk \in DOMAIN objects : \A d \in Depths :
           LET html == LayoutHtml(objects, template, pk, d)
           IN RenderLayoutCall(objects, template, html, <<>>, d).out = html
    /\ (LayoutRendered /\ rendered.slot_content = <<>>)
           => /\ ~rendered.raised
              /\ rendered.out = LayoutHtml(objects, template, rendered.value,
                                           rendered.depth)

\* A layout whose markup has a slot was rendered without fills and came
\* back with the slot's default content.
C11_SlottedLayoutRenderedWithoutFills ==
    /\ LayoutRendered
    /\ rendered.slot_content = <<>>
    /\ \E k \in 1..Len(rendered.out) : rendered.out[k] = SlotElem("main")

\* The slot ids that slot_content holds a fill for.
FilledIds(slot_content) ==
    {slot_content[f].slot_id : f \in 1..Len(slot_content)}

\* What the rich-text content of a fill renders to, as inner content.
FillInner(content) == [j \in 1..Len(content) |-> "<p>Content</p>"]

\* C12: for a layout whose markup defines the slots S, rendered with the
\* fills F: every slot of S with a fill in F holds the rendered content
\* of a fill for it, every slot element of S without a fill in F keeps its
\* default content, and the markup outside the slots is as it was.
C12_FilledSlotsInjectedOthersKeepDefault ==
    LayoutRendered =>
        LET html == LayoutHtml(objects, template, rendered.value,
                               rendered.depth)
            F == rendered.slot_content
            out == rendered.out
        IN /\ ~rendered.raised
           /\ Len(out) = Len(html)
           /\ \A k \in 1..Len(html) :
                  /\ out[k].slot = html[k].slot
                  /\ html[k].slot \notin FilledIds(F) => out[k] = html[k]
           /\ \A s \in FilledIds(F) :
                  (\E k \in 1..Len(html) : html[k].slot = s)
                  => \E k \in 1..Len(html) : \E f \in 1..Len(F) :
                        /\ html[k].slot = s
                        /\ F[f].slot_id = s
                        /\ out[k].inner = FillInner(F[f].content)

\* A layout with the slots header and main was rendered with a fill for
\* main only: main holds the fill, header its default.
C12_MainFilledHeaderDefault ==
    /\ LayoutRendered
    /\ rendered.slot_content = <<SlotFill("main", <<RichText>>)>>
    /\ rendered.out = <<SlotElem("header"), Elem("main", <<"<p>Content</p>">>)>>

\* The position of the first element of html carrying slot id s.
FirstPos(html, s) ==
    CHOOSE k \in 1..Len(html) :
        /\ html[k].slot = s
        /\ \A j \in 1..(k - 1) : html[j].slot # s

\* C14: detect_slots_from_html(html) returns exactly one SlotInfo per
\* distinct data-slot id of html, in the order of each id's first
\* occurrence, and the empty sequence when html is empty, whitespace only
\* or without a data-slot element.
C14_OneSlotInfoPerIdInDocumentOrder ==
    rendered.op = "detect_slots" =>
        LET html == rendered.html
            slots == rendered.slots
            ids == {html[k].slot : k \in 1..Len(html)} \ {""}
        IN /\ Len(slots) = Cardinality(ids)
           /\ {slots[i].slot_id : i \in 1..Len(slots)} = ids
           /\ \A i, j \in 1..Len(slots) :
                  i < j => FirstPos(html, slots[i].slot_id)
                             < FirstPos(html, slots[j].slot_id)
           /\ ( \/ html = <<>>
                \/ \A k \in 1..Len(html) : html[k] = Whitespace
                \/ \A k \in 1..Len(html) : html[k].slot = "" )
                  => slots = <<>>

\* Two elements sharing data-slot="main" were reported as one slot.
C14_DuplicateSlotReportedOnce ==
    /\ rendered.op = "detect_slots"
    /\ rendered.html = <<SlotElem("main"), SlotElem("main")>>
    /\ Len(rendered.slots) = 1
    /\ rendered.slots[1].slot_id = "main"

\* ------------------------------------------------- names, slugs and rows
\* Text is a sequence of characters, so that slugify is computed.
\* str.lower() on the characters in use.
Lower(c) == IF c = "A" THEN "a" ELSE c

\* \w, and the [-\s] class of django.utils.text.slugify.
IsWord(c) == c \in {"a", "b", "c"}
IsSep(c) == c \in {" ", "-"}

\* re.sub(r"[^\w\s-]", "", value.lower())
DropOthers(s) ==
    SelectSeq([i \in 1..Len(s) |-> Lower(s[i])],
              LAMBDA c : IsWord(c) \/ IsSep(c))

\* re.sub(r"[-\s]+", "-", value): every run of separators becomes one hyphen.
RECURSIVE CollapseSeps(_)
CollapseSeps(s) ==
    IF s = <<>> THEN <<>>
    ELSE IF IsSep(s[1])
         THEN IF Len(s) > 1 /\ IsSep(s[2]) THEN CollapseSeps(Tail(s))
              ELSE <<"-">> \o CollapseSeps(Tail(s))
    ELSE <<s[1]>> \o CollapseSeps(Tail(s))

\* value.strip("-_")
RECURSIVE StripHyphens(_)
StripHyphens(s) ==
    IF s = <<>> THEN <<>>
    ELSE IF s[1] = "-" THEN StripHyphens(Tail(s))
    ELSE IF s[Len(s)] = "-" THEN StripHyphens(SubSeq(s, 1, Len(s) - 1))
    ELSE s

\* django.utils.text.slugify
slugify(name) == StripHyphens(CollapseSeps(DropOthers(name)))

\* The empty string: a slug or name that was not given.
Blank == <<>>

\* Names in use: one that slugifies to a slug callers also supply, one
\* made of punctuation only (it slugifies to the empty string).
Names == {<<"A", " ", "b">>, <<"!">>}

\* Slugs a caller supplies.
Slugs == {<<"a", "-", "b">>, <<"c">>}

\* The publication flag of a block created without a live value.  The
\* column is declared by the draft-state base of the block class, which
\* models/reusable_block.py does not list; the value is the one the
\* repository's tests observe: the live_block fixture of
\* tests/test_api_integration.py (19-25) is created from name, slug and
\* content alone, is returned with live true (95) and is listed by the
\* live-only endpoint (62-69), while the draft fixture has to write
\* live = False itself (35-36).  The specification gives the opposite
\* default ("live: defaults false").
DefaultLive == TRUE

\* A stored ReusableBlock row.
ApiRow(name, slug, content, live) ==
    [name |-> name, slug |-> slug, content |-> content, live |-> live]

\* ReusableBlock.objects.filter(slug=slug).exclude(pk=pk).exists()
SlugTaken(objs, slug, pk) ==
    \E b \in DOMAIN objs : b # pk /\ objs[b].slug = slug

\* The unique=True constraint of the slug column.
SlugsUnique(objs) ==
    \A a, b \in DOMAIN objs : objs[a].slug = objs[b].slug => a = b

\* save() that never generates a slug.
ReusableBlock_save_KeepsBlankSlug(objs, nid, pk, row) ==
    LET k == IF pk = None THEN nid ELSE pk
    IN IF SlugTaken(objs, row.slug, pk)
       THEN [raised |-> TRUE, objects |-> objs, nextId |-> nid, pk |-> pk]
       ELSE [raised |-> FALSE,
             objects |-> [b \in DOMAIN objs \cup {k} |->
                            IF b = k THEN row ELSE objs[b]],
             nextId |-> IF pk = None THEN nid + 1 ELSE nid,
             pk |-> k]

\* save() on a slug column without the unique constraint.
ReusableBlock_save_NotUnique(objs, nid, pk, row) ==
    LET slug == IF row.slug = Blank THEN slugify(row.name) ELSE row.slug
        r == [row EXCEPT !.slug = slug]
        k == IF pk = None THEN nid ELSE pk
    IN [raised |-> FALSE,
        objects |-> [b \in DOMAIN objs \cup {k} |->
                       IF b = k THEN r ELSE objs[b]],
        nextId |-> IF pk = None THEN nid + 1 ELSE nid,
        pk |-> k]

\* --------------------------------------------------- model with its slug
\* ReusableBlock.save(): "if not self.slug: self.slug = slugify(self.name)",
\* then super().save().  The row is written unless the unique slug column
\* refuses it (raised = TRUE stands for IntegrityError).
ReusableBlock_save(objs, nid, pk, row) ==
    LET slug == IF row.slug = Blank THEN slugify(row.name) ELSE row.slug
        r == [row EXCEPT !.slug = slug]
        k == IF pk = None THEN nid ELSE pk
    IN IF SlugTaken(objs, slug, pk)
       THEN [raised |-> TRUE, objects |-> objs, nextId |-> nid, pk |-> pk]
       ELSE [raised |-> FALSE,
             objects |-> [b \in DOMAIN objs \cup {k} |->
                            IF b = k THEN r ELSE objs[b]],
             nextId |-> IF pk = None THEN nid + 1 ELSE nid,
             pk |-> k]

\* instance.full_clean() of a row: clean_fields() refuses a blank name or
\* slug (neither field has blank=True), validate_unique() refuses a slug
\* another row has, clean() refuses a reference cycle.  TRUE = raises
\* django.core.exceptions.ValidationError.
Model_full_clean(objs, pk, row) ==
    \/ row.name = Blank
    \/ row.slug = Blank
    \/ SlugTaken(objs, row.slug, pk)
    \/ full_clean(objs, pk, row.content)

\* instance.save_revision() of an instance with all its columns: its
\* full_clean() against the rows stored at that moment; TRUE = raises.
Model_save_revision(objs, pk, row) == Model_full_clean(objs, pk, row)

\* ------------------------------------------------------------ serializer
\* request.data: the fields the caller sent and their values.
Payload(fields, name, slug, content, live) ==
    [fields |-> fields,
     name |-> IF "name" \in fields THEN name ELSE Blank,
     slug |-> IF "slug" \in fields THEN slug ELSE Blank,
     content |-> IF "content" \in fields THEN content ELSE <<>>,
     live |-> IF "live" \in fields THEN live ELSE DefaultLive]

\* Meta.read_only_fields: sent values of these are dropped.
ReadOnlyFields == {"id", "created_at", "updated_at", "live"}

\* ReusableBlockSerializer.validate_slug(value); TRUE = raises.
validate_slug(objs, pk, value) == SlugTaken(objs, value, pk)

\* Field validation (to_internal_value): the keys with an error.  The
\* serializer builds name and slug from the model fields, neither of which
\* has blank=True or a default: both are required unless the update is
\* partial, and neither may be sent empty; validate_slug runs for a slug
\* that was sent.
FieldErrors(objs, pk, data, partial) ==
    {f \in {"name", "slug"} :
        \/ f \notin data.fields /\ ~partial
        \/ f = "name" /\ "name" \in data.fields /\ data.name = Blank
        \/ f = "slug" /\ "slug" \in data.fields /\ data.slug = Blank
        \/ f = "slug" /\ "slug" \in data.fields
                      /\ validate_slug(objs, pk, data.slug)}

\* The validated fields handed to validate(): read-only keys are gone, and
\* content takes its default (an empty list) unless the update is partial.
InternalValue(data, partial) ==
    [data EXCEPT !.fields = (data.fields \ ReadOnlyFields)
                              \cup (IF partial THEN {} ELSE {"content"}),
                 !.live = DefaultLive]

\* ReusableBlockSerializer.validate(attrs): a missing or empty slug is
\* generated from the name, then the slug is checked against the other
\* rows.  attrs.get(key) of an absent key is falsy, like Blank.
validate(objs, pk, attrs) ==
    LET a == IF attrs.slug = Blank /\ attrs.name # Blank
             THEN [attrs EXCEPT !.slug = slugify(attrs.name),
                                !.fields = @ \cup {"slug"}]
             ELSE attrs
    IN [raised |-> a.slug # Blank /\ SlugTaken(objs, a.slug, pk),
        attrs |-> a]

\* ReusableBlock(**validated_data): absent fields take the model defaults.
NewInstance(attrs) ==
    ApiRow(attrs.name, attrs.slug, attrs.content,
           IF "live" \in attrs.fields THEN attrs.live ELSE DefaultLive)

\* "for attr, value in validated_data.items(): setattr(instance, attr, value)"
SetAttrs(row, attrs) ==
    [row EXCEPT
       !.name = IF "name" \in attrs.fields THEN attrs.name ELSE @,
       !.slug = IF "slug" \in attrs.fields THEN attrs.slug ELSE @,
       !.content = IF "content" \in attrs.fields THEN attrs.content ELSE @,
       !.live = IF "live" \in attrs.fields THEN attrs.live ELSE @]

\* What a request leaves behind: the table, the pk counter and the outcome
\* (errors: the keys of a 400 response body).
ApiOutcome(op, objs, nid, pk, result, errors, calls) ==
    [objects |-> objs, nextId |-> nid,
     last |-> [op |-> op, pk |-> pk, result |-> result,
               status |-> HttpStatus(op, result), errors |-> errors,
               calls |-> calls]]

\* serializer.is_valid(raise_exception=True) followed by serializer.save():
\* create() for pk = None, update() otherwise; both run full_clean(), save()
\* and save_revision() in this order.  A save_revision() that raises
\* leaves the row written: nothing wraps the two calls in a transaction.
SerializerSave(op, objs, nid, pk, data, partial) ==
    LET errs == FieldErrors(objs, pk, data, partial)
        v == validate(objs, pk, InternalValue(data, partial))
        row == IF pk = None THEN NewInstance(v.attrs)
               ELSE SetAttrs(objs[pk], v.attrs)
        w == ReusableBlock_save(objs, nid, pk, row)
    IN IF errs # {}
       THEN ApiOutcome(op, objs, nid, pk, "serializers.ValidationError",
                       errs, <<"is_valid">>)
       ELSE IF v.raised
       THEN ApiOutcome(op, objs, nid, pk, "serializers.ValidationError",
                       {"slug"}, <<"is_valid">>)
       ELSE IF Model_full_clean(objs, pk, row)
       THEN ApiOutcome(op, objs, nid, pk, "ValidationError", {},
                       <<"is_valid", "full_clean">>)
       ELSE IF w.raised
       THEN ApiOutcome(op, objs, nid, pk, "IntegrityError", {},
                       <<"is_valid", "full_clean", "save">>)
       ELSE ApiOutcome(op, w.objects, w.nextId, w.pk,
                       IF Model_save_revision(w.objects, w.pk,
                                              w.objects[w.pk])
                       THEN "ValidationError" ELSE "ok", {},
                       <<"is_valid", "full_clean", "save", "save_revision">>)

\* POST /api/reusable-blocks/
ApiCreate(objs, nid, data) ==
    SerializerSave("post", objs, nid, None, data, FALSE)

\* PUT /api/reusable-blocks/<pk>/ (partial = FALSE) and PATCH (partial = TRUE)
ApiUpdate(objs, nid, pk, data, partial) ==
    SerializerSave(IF partial THEN "patch" ELSE "put", objs, nid, pk, data,
                   partial)

\* DELETE /api/reusable-blocks/<pk>/
ApiDestroy(objs, nid, pk) ==
    ApiOutcome("destroy", [b \in DOMAIN objs \ {pk} |-> objs[b]], nid, pk,
               "ok", {}, <<"delete">>)

\* POST /api/reusable-blocks/<pk>/publish/: a revision is saved and
\* published; the row becomes live.  Idempotent.  save_revision()
\* validates the stored block first: for a block that does not pass
\* full_clean() the exception leaves the view and live is not touched.
ApiPublish(objs, nid, pk) ==
    IF Model_save_revision(objs, pk, objs[pk])
    THEN ApiOutcome("publish", objs, nid, pk, "ValidationError", {},
                    <<"save_revision">>)
    ELSE ApiOutcome("publish", [objs EXCEPT ![pk] = publish(@)], nid, pk,
                    "ok", {}, <<"save_revision", "publish">>)

\* POST /api/reusable-blocks/<pk>/unpublish/: the row stops being live.
ApiUnpublish(objs, nid, pk) ==
    ApiOutcome("unpublish", [objs EXCEPT ![pk] = unpublish(@)], nid, pk,
               "ok", {}, <<"unpublish">>)

\* GET /api/reusable-blocks/<pk>/render/: instance.render(); any exception
\* is answered with 500.  The table is only read.
ApiRender(objs, nid, tpl, pk) ==
    LET r == ReusableBlock_render(objs, tpl, pk, NoDepth, 0)
    IN ApiOutcome("render", objs, nid, pk,
                  IF r.raised THEN "Exception" ELSE "ok", {}, <<"render">>)

\* ReusableBlock(name=..., slug=..., live=...).save(), or a loaded
\* instance edited (name, slug, live) and saved, outside any request: no
\* validation runs and the columns are written as they are set, live
\* included ("block.live = False; block.save(update_fields=['live'])").
\* A new instance built without live holds DefaultLive, one of the two
\* values live ranges over.
ModelSaveRow(objs, nid, pk, name, slug, live) ==
    LET row == IF pk = None THEN ApiRow(name, slug, <<>>, live)
               ELSE [objs[pk] EXCEPT !.name = name, !.slug = slug,
                                     !.live = live]
        w == ReusableBlock_save(objs, nid, pk, row)
    IN IF w.raised
       THEN ApiOutcome("save", objs, nid, pk, "IntegrityError", {},
                       <<"save">>)
       ELSE ApiOutcome("save", w.objects, w.nextId, w.pk, "ok", {},
                       <<"save">>)

\* ------------------------------------------------- requests to the API
\* The field sets callers send.
FieldSets ==
    {{"name"}, {"name", "slug"}, {"slug"}, {"content"},
     {"name", "live", "id"}}

\* The request bodies in use.
Payloads ==
    {Payload(f, n, s, <<RichText>>, l) :
        f \in FieldSets, n \in Names, s \in Slugs, l \in BOOLEAN}
    \cup {Payload({"name", "slug"}, Blank, <<"c">>, <<RichText>>, DefaultLive)}

Post(data) ==
    /\ nextId <= MaxBlocks
    /\ Apply(ApiCreate(objects, nextId, data))

Put(pk, data) == Apply(ApiUpdate(objects, nextId, pk, data, FALSE))

Patch(pk, data) == Apply(ApiUpdate(objects, nextId, pk, data, TRUE))

Destroy(pk) == Apply(ApiDestroy(objects, nextId, pk))

Publish(pk) == Apply(ApiPublish(objects, nextId, pk))

Unpublish(pk) == Apply(ApiUnpublish(objects, nextId, pk))

RenderBlock(pk) == Apply(ApiRender(objects, nextId, template, pk))

SaveRow(pk, name, slug, live) ==
    /\ pk = None => nextId <= MaxBlocks
    /\ Apply(ModelSaveRow(objects, nextId, pk, name, slug, live))

ApiNoOp ==
    [op |-> "none", pk |-> None, result |-> "ok", status |-> None,
     errors |-> {}, calls |-> <<>>]

InitApi ==
    /\ objects = EmptyTable
    /\ nextId = 1
    /\ last = ApiNoOp
    /\ detected = NoDetect
    /\ template = TRUE
    /\ rendered = NoRender
    /\ settings = NoOverride
    /\ inflight = NoRequests

NextApi ==
    \/ \E data \in Payloads : Post(data)
    \/ \E pk \in DOMAIN objects : \E data \in Payloads : Put(pk, data)
    \/ \E pk \in DOMAIN objects : \E data \in Payloads : Patch(pk, data)
    \/ \E pk \in DOMAIN objects : Destroy(pk)
    \/ \E pk \in DOMAIN objects : Publish(pk)
    \/ \E pk \in DOMAIN objects : Unpublish(pk)
    \/ \E pk \in DOMAIN objects : RenderBlock(pk)
    \/ \E pk \in DOMAIN objects \cup {None} :
          \E name \in Names : \E slug \in Slugs \cup {Blank} :
             \E live \in BOOLEAN : SaveRow(pk, name, slug, live)

SpecApi == InitApi /\ [][NextApi]_vars

\* ----------------------------------------------------- errors and slugs
\* C15: in every state reached by any sequence of create, update and
\* delete operations, no two stored blocks have the same slug.
C15_StoredSlugsDistinct == SlugsUnique(objects)

\* Two blocks are stored and a write that would have duplicated a slug was
\* refused.
C15_DuplicateRefusedAmongTwoBlocks ==
    /\ Cardinality(DOMAIN objects) >= 2
    /\ last.op \in {"post", "put", "patch", "save"}
    /\ last.result \in {"serializers.ValidationError", "IntegrityError"}

\* The slug a request asks for: the one it sends, otherwise the one
\* generated from the name it sends.
RequestedSlug(data) ==
    IF data.slug # Blank THEN data.slug ELSE slugify(data.name)

\* The requests the viewset can receive in the current state: POST, and
\* PUT or PATCH of a stored block.
Requests ==
    {[pk |-> pk, data |-> data, partial |-> partial] :
        pk \in DOMAIN objects \cup {None}, data \in Payloads,
        partial \in BOOLEAN}

\* C16: a serializer create or update whose slug (sent or generated from
\* the name) is the slug of a different stored block is answered with a
\* validation error keyed on slug (HTTP 400), never with IntegrityError,
\* and stores nothing; on update the block's own slug is no duplicate.
C16_DuplicateSlugAnswered400OnSlug ==
    \A q \in Requests :
       (q.pk = None => ~q.partial) /\ q.data.fields \cap {"name", "slug"} # {}
       => LET o == SerializerSave("request", objects, nextId, q.pk, q.data,
                                  q.partial)
          IN /\ SlugTaken(objects, RequestedSlug(q.data), q.pk)
                   => /\ o.last.result = "serializers.ValidationError"
                      /\ "slug" \in o.last.errors
                      /\ o.objects = objects
             /\ (/\ ~SlugTaken(objects, RequestedSlug(q.data), q.pk)
                 /\ RequestedSlug(q.data) # Blank
                 /\ "slug" \in q.data.fields \/ q.partial)
                   => "slug" \notin o.last.errors

\* C17: a circular-reference validation failure raised while a block is
\* created or updated through the API reaches the caller as a 4xx
\* validation error response, never as an unhandled exception or a 5xx
\* response, and nothing is written.
C17_CircularFailureAnsweredWith4xx ==
    /\ (last.op \in {"create", "update"} /\ last.result = "ValidationError")
           => last.status \in 400..499
    /\ \A b \in DOMAIN objects : \A c \in Contents(DOMAIN objects) :
           LET o == SerializerUpdate(objects, nextId, b, c)
           IN o.last.result = "ValidationError"
                 => o.last.status \in 400..499 /\ o.objects = objects

\* The slug a new block is expected to get.
ExpectedSlug(name, slug) == IF slug # Blank THEN slug ELSE slugify(name)

\* C18: when a block is created, its stored slug is the slug supplied
\* when one is supplied and non-empty, and slugify(name) otherwise, on the
\* model save() path and on the serializer path: a direct save stores that
\* slug, validate() puts it into the attributes, and a POST with a name
\* whose expected slug is neither empty nor taken creates the block under
\* that slug.
C18_CreatedSlugExplicitOrSlugified ==
    /\ \A name \in Names : \A slug \in Slugs \cup {Blank} :
          LET o == ModelSaveRow(objects, nextId, None, name, slug,
                                DefaultLive)
          IN o.last.result = "ok"
                => o.objects[o.last.pk].slug = ExpectedSlug(name, slug)
    /\ \A data \in Payloads :
          LET v == validate(objects, None, InternalValue(data, FALSE))
              o == ApiCreate(objects, nextId, data)
              expected == ExpectedSlug(data.name, data.slug)
          IN /\ data.name # Blank => v.attrs.slug = expected
             /\ (/\ data.name # Blank
                 /\ expected # Blank
                 /\ ~SlugTaken(objects, expected, None))
                   => /\ o.last.result = "ok"
                      /\ o.objects[o.last.pk].slug = expected

\* A direct save and validate() called on its own both give the expected
\* slug: the save() path and validate() itself do what the claim says.
C18_SaveAndValidateGiveExpectedSlug ==
    /\ \A name \in Names : \A slug \in Slugs \cup {Blank} :
          LET o == ModelSaveRow(objects, nextId, None, name, slug,
                                DefaultLive)
          IN o.last.result = "ok"
                => o.objects[o.last.pk].slug = ExpectedSlug(name, slug)
    /\ \A data \in Payloads :
          LET v == validate(objects, None, InternalValue(data, FALSE))
          IN data.name # Blank
                => v.attrs.slug = ExpectedSlug(data.name, data.slug)

\* A POST that sent a name and no slug has just been answered 400 with an
\* error on slug, and nothing was stored.
C18_SluglessPostRefused ==
    /\ last.op = "post"
    /\ last.result = "serializers.ValidationError"
    /\ last.status = 400
    /\ "slug" \in last.errors
    /\ "name" \notin last.errors
    /\ objects = EmptyTable

\* C19: a PATCH that sends only name changes the name and leaves every
\* other field of the block as it was; in particular the slug after the
\* request is the slug before it.
C19_PatchOfNameKeepsSlug ==
    \A pk \in DOMAIN objects : \A name \in Names :
       LET data == Payload({"name"}, name, Blank, <<>>, DefaultLive)
           o == ApiUpdate(objects, nextId, pk, data, TRUE)
       IN o.last.result = "ok"
             => /\ o.objects[pk] = [objects[pk] EXCEPT !.name = name]
                /\ o.objects[pk].slug = objects[pk].slug

\* ------------------------------------------------------ publication flag
\* The rows of before that are still stored have the live flag they had.
LiveKept(before, after) ==
    \A b \in DOMAIN before \cap DOMAIN after : after[b].live = before[b].live

\* C20: a block's live flag is false when the block is created, and it
\* changes only in the publish and unpublish operations: create, update
\* (also with a payload that carries live or id), partial update and
\* render leave the flag of every stored block as it was.
C20_LiveFalseOnCreateSetOnlyByPublishing ==
    /\ \A data \in Payloads :
          LET o == ApiCreate(objects, nextId, data)
          IN /\ LiveKept(objects, o.objects)
             /\ (o.last.result = "ok" /\ o.last.pk \in DOMAIN o.objects)
                   => ~o.objects[o.last.pk].live
    /\ \A pk \in DOMAIN objects :
          /\ \A data \in Payloads : \A partial \in BOOLEAN :
                LiveKept(objects,
                         ApiUpdate(objects, nextId, pk, data, partial).objects)
          /\ LiveKept(objects,
                      ApiRender(objects, nextId, template, pk).objects)

\* The handlers other than create keep the flag: update, partial update
\* and render leave the live flag of every stored block as it was, and a
\* create leaves the flag of the blocks stored before it.
C20_LiveKeptByUpdatesAndRender ==
    /\ \A data \in Payloads :
          LiveKept(objects, ApiCreate(objects, nextId, data).objects)
    /\ \A pk \in DOMAIN objects :
          /\ \A data \in Payloads : \A partial \in BOOLEAN :
                LiveKept(objects,
                         ApiUpdate(objects, nextId, pk, data, partial).objects)
          /\ LiveKept(objects,
                      ApiRender(objects, nextId, template, pk).objects)

\* A POST has just created a block, nothing has published it, and it is
\* live.
C20_CreatedBlockIsLive ==
    /\ last.op = "post"
    /\ last.result = "ok"
    /\ last.pk \in DOMAIN objects
    /\ objects[last.pk].live

\* ------------------------------------------------------- public endpoint
\* A get_queryset() that returns every block.
PublicQueryset_All(objs) == DOMAIN objs

\* ReusableBlockAPIViewSet.get_queryset(): ReusableBlock.objects.filter(live=True)
PublicQueryset(objs) == {b \in DOMAIN objs : objs[b].live}

\* GET /api/v2/reusable-blocks/: the blocks of the queryset (no filter sent).
PublicList(objs) == PublicQueryset(objs)

\* GET /api/v2/reusable-blocks/<pk>/: the status of the answer; the block is
\* looked up in the queryset and a miss is answered with 404.
PublicDetail(objs, pk) == IF pk \in PublicQueryset(objs) THEN 200 ELSE 404

\* C21: in every state reached by any sequence of create, publish,
\* unpublish and delete operations, the read-only public endpoint lists
\* exactly the blocks whose live flag is true, and a detail request for a
\* block whose live flag is false answers 404.
C21_PublicEndpointServesLiveBlocksOnly ==
    /\ \A b \in DOMAIN objects : (b \in PublicList(objects)) <=> objects[b].live
    /\ PublicList(objects) \subseteq DOMAIN objects
    /\ \A b \in DOMAIN objects :
          ~objects[b].live => PublicDetail(objects, b) = 404

\* A block has just been unpublished while another one is live: the list
\* holds the live one only and the detail of the other answers 404.
C21_UnpublishedBlockHiddenLiveBlockListed ==
    /\ last.op = "unpublish"
    /\ last.pk \in DOMAIN objects
    /\ PublicDetail(objects, last.pk) = 404
    /\ PublicList(objects) # {}
    /\ PublicList(objects) # DOMAIN objects

\* ----------------------------------------------------------- permissions
\* The dotted path of rest_framework.permissions.IsAuthenticated.
IsAuthenticated == "rest_framework.permissions.IsAuthenticated"

\* views._resolve_classes(setting_key): None for a setting that is None,
\* else the classes of the list.
resolve_classes(user, key) ==
    LET classes == get_setting(user, key)
    IN IF classes = NoneValue THEN NoneValue
       ELSE Value("list", classes.items, 0)

\* ReusableBlockModelViewSet.get_permissions(): "if classes is None: return []".
get_permissions(user) ==
    LET classes == resolve_classes(user, "API_PERMISSION_CLASSES")
    IN IF classes = NoneValue THEN <<>> ELSE classes.items

\* permission.has_permission(request, view)
has_permission(cls, authenticated) ==
    IF cls.name = IsAuthenticated THEN authenticated ELSE TRUE

\* APIView.check_permissions(request): TRUE = the request is refused.
PermissionDenied(user, authenticated) ==
    \E k \in DOMAIN get_permissions(user) :
       ~has_permission(get_permissions(user)[k], authenticated)

\* A request to the CRUD endpoint.
Request(kind, pk, data) == [kind |-> kind, pk |-> pk, data |-> data]

\* The body of a request that sends none.
NoPayload == Payload({}, Blank, Blank, <<>>, DefaultLive)

\* The requests the CRUD endpoint can receive in the current state.
CrudRequests ==
    {Request("list", None, NoPayload)}
    \cup {Request("post", None, data) : data \in Payloads}
    \cup {Request(kind, pk, data) :
            kind \in {"put", "patch"}, pk \in DOMAIN objects, data \in Payloads}
    \cup {Request(kind, pk, NoPayload) :
            kind \in {"destroy", "publish", "unpublish", "render"},
            pk \in DOMAIN objects}

\* The handler of a request, once it is let in.
Handle(objs, nid, tpl, q) ==
    IF q.kind = "list" THEN ApiOutcome("list", objs, nid, None, "ok", {}, <<>>)
    ELSE IF q.kind = "post" THEN ApiCreate(objs, nid, q.data)
    ELSE IF q.kind = "put" THEN ApiUpdate(objs, nid, q.pk, q.data, FALSE)
    ELSE IF q.kind = "patch" THEN ApiUpdate(objs, nid, q.pk, q.data, TRUE)
    ELSE IF q.kind = "destroy" THEN ApiDestroy(objs, nid, q.pk)
    ELSE IF q.kind = "publish" THEN ApiPublish(objs, nid, q.pk)
    ELSE IF q.kind = "unpublish" THEN ApiUnpublish(objs, nid, q.pk)
    ELSE ApiRender(objs, nid, tpl, q.pk)

\* APIView.dispatch: the permission classes are checked (initial()), then
\* the handler runs.
Serve(user, authenticated, objs, nid, tpl, q) ==
    IF PermissionDenied(user, authenticated)
    THEN ApiOutcome(q.kind, objs, nid, q.pk, "PermissionDenied", {}, <<>>)
    ELSE Handle(objs, nid, tpl, q)

\* C22: with no WAGTAIL_REUSABLE_BLOCKS override, the permission classes of
\* the CRUD endpoint resolve to IsAuthenticated, so every list, create,
\* update, delete, publish, unpublish or render request from an
\* unauthenticated caller is refused (403) and leaves the stored blocks
\* unchanged.
C22_UnauthenticatedRequestsRefused ==
    /\ settings = NoOverride
          => get_permissions(settings) = <<ClassItem(IsAuthenticated)>>
    /\ \A q \in CrudRequests :
          LET o == Serve(NoOverride, FALSE, objects, nextId, template, q)
          IN o.last.status = 403 /\ o.objects = objects

\* --------------------------------------------------------- configuration
\* An item ready() accepts: a tuple of a string and an object that has a
\* render method.
ValidBlockType(item) ==
    item.type = "tuple" /\ item.len = 2 /\ item.name = "str"
       /\ item.block = "Block"

\* WagtailReusableBlocksConfig.ready(): BLOCK_TYPES must be a list (an empty
\* one is only logged) of 2-tuples of a string and a block, TEMPLATE must
\* be a string.  No other setting is looked at.  TRUE = raises
\* ImproperlyConfigured.
ready(user) ==
    LET block_types == get_setting(user, "BLOCK_TYPES")
        tpl == get_setting(user, "TEMPLATE")
    IN \/ block_types.type # "list"
       \/ \E k \in DOMAIN block_types.items :
             ~ValidBlockType(block_types.items[k])
       \/ tpl.type # "str"

\* The BLOCK_TYPES values in use: absent, well formed, empty, a string, and
\* lists with a string, a 1-tuple, a tuple whose name is a number, a tuple
\* whose block is a string.
BlockTypesValues ==
    {Unset,
     Value("list", <<TupleItem(2, "str", "Block")>>, 0),
     Value("list", <<>>, 0),
     Value("str", <<>>, 0),
     Value("list", <<StrItem>>, 0),
     Value("list", <<TupleItem(1, "str", "")>>, 0),
     Value("list", <<TupleItem(2, "int", "Block")>>, 0),
     Value("list", <<TupleItem(2, "str", "str")>>, 0)}

\* The TEMPLATE values in use: absent, a template path, a number.
TemplateValues == {Unset, Value("str", <<>>, 0), Value("int", <<>>, 123)}

\* The MAX_NESTING_DEPTH values in use: absent, 10, -1, a string.
NestingDepthValues ==
    {Unset, Value("int", <<>>, 10), Value("int", <<>>, -1),
     Value("str", <<>>, 0)}

\* The WAGTAIL_REUSABLE_BLOCKS dicts in use.
UserSettings ==
    {[NoOverride EXCEPT !["BLOCK_TYPES"] = b, !["TEMPLATE"] = t,
                        !["MAX_NESTING_DEPTH"] = d] :
        b \in BlockTypesValues, t \in TemplateValues,
        d \in NestingDepthValues}

\* Used to state C23.  The settings hold a configuration error, as the
\* configuration section of the specification understands it: a malformed
\* BLOCK_TYPES, a TEMPLATE that is no string, a MAX_NESTING_DEPTH that is
\* no number or is negative.  What ready() itself refuses is the operator
\* ready above.
ConfigurationError(user) ==
    LET block_types == get_setting(user, "BLOCK_TYPES")
        depth == user["MAX_NESTING_DEPTH"]
    IN \/ block_types.type # "list"
       \/ \E k \in DOMAIN block_types.items :
             ~ValidBlockType(block_types.items[k])
       \/ get_setting(user, "TEMPLATE").type # "str"
       \/ depth # Unset /\ (depth.type # "int" \/ depth.int < 0)

\* Process start: django calls AppConfig.ready() once.
Ready ==
    /\ last.op = "none"
    /\ last' = Outcome("ready", objects, nextId, None,
                       IF ready(settings) THEN "ImproperlyConfigured"
                       ELSE "ok", <<"ready">>).last
    /\ UNCHANGED <<objects, nextId, detected, template, rendered, settings,
                   inflight>>

\* block.render() in a process that has started.
RenderStarted(pk) ==
    /\ last.op = "ready"
    /\ last.result = "ok"
    /\ rendered.op = "none"
    /\ rendered' = RenderResult(
                       "render", None, pk, <<>>, NoDepth,
                       ReusableBlock_render(objects, template, pk, NoDepth, 0))
    /\ UNCHANGED <<objects, nextId, last, detected, template, settings,
                   inflight>>

InitConf ==
    /\ objects = [pk \in {1} |-> Row(<<RichText>>)]
    /\ nextId = 2
    /\ last = NoOp
    /\ detected = NoDetect
    /\ template \in BOOLEAN
    /\ rendered = NoRender
    /\ settings \in UserSettings
    /\ inflight = NoRequests

NextConf ==
    \/ Ready
    \/ \E pk \in DOMAIN objects : RenderStarted(pk)

SpecConf == InitConf /\ [][NextConf]_vars

\* C23: every configuration error, including an invalid MAX_NESTING_DEPTH,
\* a malformed BLOCK_TYPES registration and a non-string TEMPLATE, is
\* detected by AppConfig.ready() at process start and raises there; no
\* configuration error is first detected during a render call.
C23_ConfigurationErrorsRaiseAtStartup ==
    /\ (last.op = "ready" /\ ConfigurationError(settings))
          => last.result = "ImproperlyConfigured"
    /\ (rendered.op = "render" /\ rendered.raised)
          => ~ConfigurationError(settings)

\* ------------------------------------------------------- depth in context
\* The depth a context stands for: a context without the key is at depth 0.
DepthOf(depth) == IF depth = NoDepth THEN 0 ELSE depth

\* C24: entering a nested block render increments depth by 1 in a copy of
\* the inherited context, so a render_basic whose block nests another block
\* hands the nested render a depth one above its own, while the caller's
\* context (and that of a sibling reference) keeps the depth it had.
C24_NestedRenderIncrementsDepthInCopy ==
    ( /\ rendered.op = "render_basic"
      /\ ~rendered.raised
      /\ rendered.expansions >= 2 )
       => rendered.carried >= DepthOf(rendered.depth) + 1

\* A render entered from a page: no depth in the context, or depth 0.
TopLevelRender ==
    /\ rendered.op \in {"render_basic", "layout_render"}
    /\ rendered.depth \in {NoDepth, 0}
    /\ rendered.value # None

\* C25: every top-level render terminates for every reference structure,
\* cycles included: along any call chain at most MAX_NESTING_DEPTH nested
\* block expansions occur, and a branch that reaches the limit emits the
\* placeholder and makes no further nested render call.
C25_RenderStopsAtNestingLimit ==
    TopLevelRender =>
        /\ rendered.expansions <= MAX_NESTING_DEPTH
        /\ (template /\ rendered.value \in OnCycles(objects, DOMAIN objects))
              => PlaceholderHtml \in Range(rendered.out)

\* ------------------------------------------------ repeated slots, failures
\* A fill has a segment whose rendering raises: an image whose source
\* file is not in storage.
FillFails(objs, content) ==
    \E i \in 1..Len(content) :
        /\ content[i].type = "image"
        /\ ~content[i].value

\* C26: when the same slot id is on more than one element of layout_html
\* and a fill exists for that id, only the first element in document order
\* receives fill content and every later element with that id keeps its
\* default content; when several fills carry the same slot id, the element
\* holds the content of one of them.
C26_FirstElementOfASlotIdIsFilled ==
    rendered.op = "render_layout_with_slots" =>
        LET html == rendered.html
            F == rendered.slot_fills
            out == rendered.out
        IN \A k \in 1..Len(html) :
              (html[k].slot \in FilledIds(F))
              => IF \A j \in 1..(k - 1) : html[j].slot # html[k].slot
                 THEN \E f \in 1..Len(F) :
                         /\ F[f].slot_id = html[k].slot
                         /\ out[k] = IF FillFails(objects, F[f].content)
                                     THEN html[k]
                                     ELSE Elem(html[k].slot,
                                               FillInner(F[f].content))
                 ELSE out[k] = html[k]

\* A layout with two elements of slot main was rendered with two fills for
\* main: the first element holds a fill, the second its default content.
C26_RepeatedSlotFilledOnce ==
    /\ rendered.op = "render_layout_with_slots"
    /\ rendered.html = <<SlotElem("main"), SlotElem("main")>>
    /\ rendered.slot_fills
          = <<SlotFill("main", <<RichText>>), SlotFill("main", <<>>)>>
    /\ rendered.out[1] # SlotElem("main")
    /\ rendered.out[2] = SlotElem("main")

InFlight(op, pk, data, partial) ==
    [op |-> op, pk |-> pk, data |-> data, partial |-> partial,
     pc |-> "is_valid", row |-> ApiRow(Blank, Blank, <<>>, DefaultLive),
     result |-> "ok", status |-> None, errors |-> {}]

\* The request i answered: nothing more runs for it.
Answered(q, result, errors) ==
    [q EXCEPT !.pc = "done", !.result = result,
              !.status = HttpStatus(q.op, result), !.errors = errors]

\* POST requests made at the same time: a name alone, or a name and a slug.
ConcurrentCreates ==
    {InFlight("post", None, Payload(f, n, s, <<RichText>>, DefaultLive), FALSE) :
        f \in {{"name"}, {"name", "slug"}}, n \in Names, s \in Slugs}

\* The two blocks the concurrent updates work on; neither references
\* anything.
TwoBlocks ==
    [pk \in 1..2 |->
        IF pk = 1
        THEN ApiRow(<<"A", " ", "b">>, <<"a", "-", "b">>, <<RichText>>,
                    DefaultLive)
        ELSE ApiRow(<<"c">>, <<"c">>, <<RichText>>, DefaultLive)]

\* PATCH requests made at the same time: new content for one of the two
\* blocks, plain or referencing one of them.
ConcurrentUpdates ==
    {InFlight("patch", pk, Payload({"content"}, Blank, Blank, c, DefaultLive),
              TRUE) :
        pk \in 1..2, c \in {<<RichText>>, <<Ref(1)>>, <<Ref(2)>>}}

\* serializer.is_valid(raise_exception=True) of request i, run against
\* the rows stored at this moment; for an update the instance was loaded
\* by get_object() just before.  A failure is answered with 400.
IsValidStep(i) ==
    LET q == inflight[i]
        errs == FieldErrors(objects, q.pk, q.data, q.partial)
        v == validate(objects, q.pk, InternalValue(q.data, q.partial))
        row == IF q.pk = None THEN NewInstance(v.attrs)
               ELSE SetAttrs(objects[q.pk], v.attrs)
    IN /\ q.pc = "is_valid"
       /\ inflight' =
              [inflight EXCEPT ![i] =
                  IF errs # {}
                  THEN Answered(q, "serializers.ValidationError", errs)
                  ELSE IF v.raised
                  THEN Answered(q, "serializers.ValidationError", {"slug"})
                  ELSE [q EXCEPT !.pc = "full_clean", !.row = row]]
       /\ UNCHANGED <<objects, nextId, last, detected, template, rendered,
                      settings>>

\* instance.full_clean() in create() / update() of request i, run against
\* the rows stored at this moment.
FullCleanStep(i) ==
    LET q == inflight[i]
    IN /\ q.pc = "full_clean"
       /\ inflight' =
              [inflight EXCEPT ![i] =
                  IF Model_full_clean(objects, q.pk, q.row)
                  THEN Answered(q, "ValidationError", {})
                  ELSE [q EXCEPT !.pc = "save"]]
       /\ UNCHANGED <<objects, nextId, last, detected, template, rendered,
                      settings>>

\* instance.save() of request i: the row is written unless the slug
\* column's unique constraint refuses it.  The instance keeps the pk and
\* the slug save() gave it.
SaveStep(i) ==
    LET q == inflight[i]
        w == ReusableBlock_save(objects, nextId, q.pk, q.row)
    IN /\ q.pc = "save"
       /\ IF w.raised
          THEN /\ inflight' =
                     [inflight EXCEPT ![i] = Answered(q, "IntegrityError", {})]
               /\ UNCHANGED <<objects, nextId>>
          ELSE /\ inflight' =
                     [inflight EXCEPT ![i] =
                         [q EXCEPT !.pc = "save_revision", !.pk = w.pk,
                                   !.row = w.objects[w.pk]]]
               /\ objects' = w.objects
               /\ nextId' = w.nextId
       /\ UNCHANGED <<last, detected, template, rendered, settings>>

\* instance.save_revision() of request i, after its row was written and
\* outside any transaction: the instance is validated again against the
\* rows stored at this moment; a failure leaves the request with the
\* exception and the row stays written.
SaveRevisionStep(i) ==
    LET q == inflight[i]
    IN /\ q.pc = "save_revision"
       /\ inflight' =
              [inflight EXCEPT ![i] =
                  IF Model_save_revision(objects, q.pk, q.row)
                  THEN Answered(q, "ValidationError", {})
                  ELSE Answered(q, "ok", {})]
       /\ UNCHANGED <<objects, nextId, last, detected, template, rendered,
                      settings>>

\* Two creates on an empty table, or two updates on the two blocks.
InitConcurrent ==
    /\ \/ /\ objects = [k \in {} |-> TwoBlocks[1]]
          /\ nextId = 1
          /\ inflight \in [1..2 -> ConcurrentCreates]
       \/ /\ objects = TwoBlocks
          /\ nextId = 3
          /\ inflight \in [1..2 -> ConcurrentUpdates]
    /\ last = ApiNoOp
    /\ detected = NoDetect
    /\ template = TRUE
    /\ rendered = NoRender
    /\ settings = NoOverride

NextConcurrent ==
    \E i \in 1..2 :
        \/ IsValidStep(i)
        \/ FullCleanStep(i)
        \/ SaveStep(i)
        \/ SaveRevisionStep(i)

SpecConcurrent == InitConcurrent /\ [][NextConcurrent]_vars

\* Both requests have been answered.
BothDone == \A i \in 1..2 : inflight[i].pc = "done"

\* C28: when two different blocks are updated concurrently, the
\* validation and the save of the two updates interleaved in any order,
\* the stored reference graph is acyclic once both updates are done.
C28_ConcurrentUpdatesLeaveGraphAcyclic ==
    (/\ DOMAIN inflight = 1..2
     /\ BothDone
     /\ \A i \in 1..2 : inflight[i].op = "patch"
     /\ inflight[1].pk # inflight[2].pk)
    => Acyclic(objects)

\* Two updates of different blocks run one after the other: the second,
\* which would close the cycle, is refused and the graph stays acyclic.
C28_SecondUpdateRefusedWhenSequential ==
    /\ DOMAIN inflight = 1..2
    /\ BothDone
    /\ inflight[1].data.content = <<Ref(2)>> /\ inflight[1].pk = 1
    /\ inflight[2].data.content = <<Ref(1)>> /\ inflight[2].pk = 2
    /\ inflight[1].result = "ok"
    /\ inflight[2].result = "ValidationError"
    /\ Acyclic(objects)

\* Both rows were written before either revision was saved: each
\* save_revision() finds the cycle, both requests end with the exception
\* and the cycle stays stored.
C28_BothUpdatesFailedAfterBothRowsWritten ==
    /\ DOMAIN inflight = 1..2
    /\ BothDone
    /\ inflight[1].data.content = <<Ref(2)>> /\ inflight[1].pk = 1
    /\ inflight[2].data.content = <<Ref(1)>> /\ inflight[2].pk = 2
    /\ \A i \in 1..2 : /\ inflight[i].result = "ValidationError"
                        /\ inflight[i].status = 500
    /\ objects[1].content = <<Ref(2)>>
    /\ objects[2].content = <<Ref(1)>>

\* C29: when two creates carry the same slug (or the same name and no
\* slug) and both have passed the validate() check before either saves,
\* exactly one block is stored and the other request ends with a
\* validation error on the slug, not with an IntegrityError.
C29_ConcurrentDuplicateCreateEndsInSlugError ==
    (/\ DOMAIN inflight = 1..2
     /\ BothDone
     /\ \A i \in 1..2 : inflight[i].op = "post"
     /\ RequestedSlug(inflight[1].data) = RequestedSlug(inflight[2].data)
     /\ RequestedSlug(inflight[1].data) # Blank
     /\ \A i \in 1..2 : inflight[i].result # "serializers.ValidationError")
    => /\ Cardinality(DOMAIN objects) = 1
       /\ \E i \in 1..2 :
             /\ inflight[i].result = "ok"
             /\ inflight[3 - i].result = "ValidationError"

\* Whatever the interleaving of two creates that send the same slug,
\* exactly one block is stored (a create that sends no slug is refused by
\* the field validation and stores nothing).
C29_ExactlyOneOfTwoDuplicateCreatesStored ==
    (/\ DOMAIN inflight = 1..2
     /\ BothDone
     /\ \A i \in 1..2 : inflight[i].op = "post"
     /\ \A i \in 1..2 : "slug" \in inflight[i].data.fields
     /\ RequestedSlug(inflight[1].data) = RequestedSlug(inflight[2].data)
     /\ RequestedSlug(inflight[1].data) # Blank)
    => /\ Cardinality(DOMAIN objects) = 1
       /\ \E i \in 1..2 : /\ inflight[i].result = "ok"
                           /\ inflight[3 - i].result # "ok"

\* --------------------------------------------- one block reached twice
\* The blocks of a diamond: A, B, C and D.
DiamondBlocks == 4

\* The diamond A->B, A->C, B->D, C->D.
Diamond ==
    [pk \in 1..DiamondBlocks |->
        IF pk = 1 THEN Row(<<Ref(2), Ref(3)>>)
        ELSE IF pk = DiamondBlocks THEN Row(<<RichText>>)
        ELSE Row(<<Ref(DiamondBlocks)>>)]

\* The tables in which block 1 references the blocks 2 and 3 and every
\* other block holds rich text or one reference: the diamond, the other
\* graphs with a block reached along two paths, and the graphs with a
\* cycle.
FanOutTables ==
    {t \in [1..DiamondBlocks ->
                {Row(<<RichText>>), Row(<<Ref(2), Ref(3)>>)}
                    \cup {Row(<<Ref(b)>>) : b \in 1..DiamondBlocks}] :
        /\ t[1] = Row(<<Ref(2), Ref(3)>>)
        /\ \A pk \in 2..DiamondBlocks : Len(t[pk].content) = 1}

InitFanOut ==
    /\ objects \in FanOutTables
    /\ nextId = DiamondBlocks + 1
    /\ last = NoOp
    /\ detected = NoDetect
    /\ template = TRUE
    /\ rendered = NoRender
    /\ settings = NoOverride
    /\ inflight = NoRequests

NextFanOut ==
    \E pk \in DOMAIN objects, visited \in SUBSET DOMAIN objects :
        DetectCall(pk, visited)

SpecFanOut == InitFanOut /\ [][NextFanOut]_vars

\* A cycle can be reached from block pk: pk, or a block reached from it,
\* is reached from itself.
CycleReachable(objs, pk) ==
    \E b \in {pk} \cup ReachedFrom(objs, pk) : b \in ReachedFrom(objs, b)

\* C30: detect_circular_references, called with an empty visited set,
\* raises only when a cycle is reachable from the validated block: on an
\* acyclic graph, a diamond with one block reached along two paths
\* included, the call completes without raising.
C30_RaisesOnlyWhenACycleIsReachable ==
    (detected.op = "detect" /\ detected.visited = {})
    => (detected.raised => CycleReachable(objects, detected.pk))

\* The validator was called on A of the diamond: it visited D twice, each
\* time with the blocks of one path only, and did not raise.
C30_DiamondValidatedWithoutRaising ==
    /\ objects = Diamond
    /\ detected.op = "detect"
    /\ detected.pk = 1
    /\ detected.visited = {}
    /\ ~detected.raised
    /\ \E i, j \in 1..Len(detected.calls) :
          /\ detected.calls[i] = [pk |-> DiamondBlocks, visited |-> {1, 2}]
          /\ detected.calls[j] = [pk |-> DiamondBlocks, visited |-> {1, 3}]

====
